---- MODULE Spec2Model ----
(***************************************************************************)
(* Peptide m/z calculator: the calculator page (content/calculator.py),    *)
(* its two pure helpers validate_sequence and apply_modification, and the  *)
(* Calculate handler; the main page (content/quickstart.py) with its       *)
(* session state and the backend it calls.  A Python string is a sequence  *)
(* of one-character strings.                                               *)
(***************************************************************************)
EXTENDS Integers, Sequences, FiniteSets, TLC

VARIABLES
    peptide_sequence,   \* the text input's value
    modifications,      \* the dropdown's value
    charge_state,       \* the number input's value
    display,            \* what the last page run rendered below the inputs
    calls,              \* the calls the last page run's handler made, in order
    ret,                \* the value returned by the last direct helper call
    analysis,           \* main page: the analysis the last page run used
    last_sequence,      \* main page: st.session_state["last_sequence"]
    last_analysis,      \* main page: st.session_state["last_analysis"]
    calculation_in_progress  \* main page: st.session_state["calculation_in_progress"]

session == <<analysis, last_sequence, last_analysis, calculation_in_progress>>

vars == <<peptide_sequence, modifications, charge_state, display, calls, ret,
          analysis, last_sequence, last_analysis, calculation_in_progress>>

----------------------------------------------------------------------------
(* Bounds *)

MaxLen == 3

PageMaxLen == 2

----------------------------------------------------------------------------
(* Python str primitives: ASCII letters only *)

UPPERCASE ==
    <<"A","B","C","D","E","F","G","H","I","J","K","L","M",
      "N","O","P","Q","R","S","T","U","V","W","X","Y","Z">>

LOWERCASE ==
    <<"a","b","c","d","e","f","g","h","i","j","k","l","m",
      "n","o","p","q","r","s","t","u","v","w","x","y","z">>

Range(f) == {f[i] : i \in DOMAIN f}

isalpha(c) == c \in Range(UPPERCASE) \cup Range(LOWERCASE)

isspace(c) == c = " "

upper_char(c) ==
    IF c \in Range(LOWERCASE)
    THEN UPPERCASE[CHOOSE i \in DOMAIN LOWERCASE : LOWERCASE[i] = c]
    ELSE c

upper(s) == [i \in 1..Len(s) |-> upper_char(s[i])]

\* s.strip() == "" : nothing but whitespace
strip_is_empty(s) == \A i \in 1..Len(s) : isspace(s[i])

Strings(chars, n) == UNION {[1..k -> chars] : k \in 0..n}

----------------------------------------------------------------------------
(* validate_sequence *)

valid_aa ==
    {"A","C","D","E","F","G","H","I","K","L",
     "M","N","P","Q","R","S","T","V","W","Y"}

validate_sequence_no_upper(sequence) ==
    LET sequence_clean == SelectSeq(sequence, isalpha)
    IN  <<\A i \in 1..Len(sequence_clean) : sequence_clean[i] \in valid_aa,
          sequence_clean>>

validate_sequence(sequence) ==
    LET sequence_clean == SelectSeq(upper(sequence), isalpha)
    IN  <<\A i \in 1..Len(sequence_clean) : sequence_clean[i] \in valid_aa,
          sequence_clean>>

----------------------------------------------------------------------------
(* Direct calls of validate_sequence on arbitrary text *)

ValidateChars == {"A", "M", "K", "m", "y", "B", "x", " ", "3", "/", "(", "!"}

NoRet == [fn |-> "none", arg |-> <<>>, value |-> <<>>]

DEFAULT_CHARGE == 2

DEFAULT_SEQUENCE == <<"P", "E", "P", "T", "I", "D", "E">>

\* SequenceAnalysis(): the analysis of nothing
SequenceAnalysis ==
    [is_valid |-> FALSE, clean_sequence |-> <<>>, modification |-> "None",
     modification_detected |-> FALSE, charge |-> DEFAULT_CHARGE,
     charge_detected |-> FALSE, error_message |-> ""]

\* the main page's session state, which the other pages do not touch
NoSession ==
    /\ analysis = SequenceAnalysis
    /\ last_sequence = <<>>
    /\ last_analysis = SequenceAnalysis
    /\ calculation_in_progress = FALSE

\* one call of the handler: the function, its argument, what it returned
Call(fn, arg, result) ==
    [fn |-> fn, arg |-> arg, result |-> result, raised |-> FALSE]

\* a call that raised
Raise(fn, arg) == [fn |-> fn, arg |-> arg, result |-> <<>>, raised |-> TRUE]

Error(message) ==
    [kind |-> "error", message |-> message, mz_ratio |-> 0, mono_weight |-> 0,
     charge_state |-> 0, original_sequence |-> <<>>, modified_sequence |-> <<>>,
     clean_sequence |-> <<>>, modification |-> "None"]

Blank == [Error("") EXCEPT !.kind = "none"]

InitValidate ==
    /\ NoSession
    /\ peptide_sequence \in Strings(ValidateChars, MaxLen)
    /\ modifications = "None"
    /\ charge_state = 2
    /\ display = Blank
    /\ calls = <<>>
    /\ ret = NoRet

CallValidate ==
    /\ ret.fn = "none"
    /\ ret' = [fn |-> "validate_sequence", arg |-> peptide_sequence,
               value |-> validate_sequence(peptide_sequence)]
    /\ UNCHANGED <<peptide_sequence, modifications, charge_state, display, calls, session>>

NextValidate == CallValidate

SpecValidate == InitValidate /\ [][NextValidate]_vars

----------------------------------------------------------------------------
(* apply_modification *)

contains(s, c) == \E i \in 1..Len(s) : s[i] = c

RECURSIVE replace(_, _, _)
\* str.replace(old, new): every occurrence of the one-character string old
replace(s, old, new) ==
    IF s = <<>> THEN <<>>
    ELSE (IF Head(s) = old THEN new ELSE <<Head(s)>>) \o replace(Tail(s), old, new)

RECURSIVE replace_first(_, _, _)
\* str.replace(old, new, 1): the first occurrence only
replace_first(s, old, new) ==
    IF s = <<>> THEN <<>>
    ELSE IF Head(s) = old THEN new \o Tail(s)
    ELSE <<Head(s)>> \o replace_first(Tail(s), old, new)

Oxidation == <<"O","x","i","d","a","t","i","o","n">>
Carbamidomethyl == <<"C","a","r","b","a","m","i","d","o","m","e","t","h","y","l">>
Phospho == <<"P","h","o","s","p","h","o">>
Acetyl == <<"A","c","e","t","y","l">>
Methyl == <<"M","e","t","h","y","l">>
Deamidated == <<"D","e","a","m","i","d","a","t","e","d">>

\* f"{aa}({name})"
annotated(aa, name) == <<aa, "(">> \o name \o <<")">>

RECURSIVE replace_first_present(_, _, _)
\* for aa in targets: if aa in sequence: return sequence.replace(aa, f"{aa}(name)", 1)
\* return sequence
replace_first_present(sequence, targets, name) ==
    IF targets = <<>> THEN sequence
    ELSE IF contains(sequence, Head(targets))
         THEN replace_first(sequence, Head(targets), annotated(Head(targets), name))
         ELSE replace_first_present(sequence, Tail(targets), name)

apply_modification(sequence, modification) ==
    CASE modification = "None" -> sequence
      [] modification = "Oxidation (M)" ->
            replace(sequence, "M", annotated("M", Oxidation))
      [] modification = "Carbamidomethyl (C)" ->
            replace(sequence, "C", annotated("C", Carbamidomethyl))
      [] modification = "Phosphorylation (S/T/Y)" ->
            replace_first_present(sequence, <<"S", "T", "Y">>, Phospho)
      [] modification = "Acetylation (N-term)" ->
            <<".", "(">> \o Acetyl \o <<")">> \o sequence
      [] modification = "Methylation (K/R)" ->
            replace_first_present(sequence, <<"K", "R">>, Methyl)
      [] modification = "Deamidation (N/Q)" ->
            replace_first_present(sequence, <<"N", "Q">>, Deamidated)
      [] OTHER -> sequence

\* the dropdown's options
modification_options ==
    <<"None", "Oxidation (M)", "Carbamidomethyl (C)", "Phosphorylation (S/T/Y)",
      "Acetylation (N-term)", "Methylation (K/R)", "Deamidation (N/Q)">>

----------------------------------------------------------------------------
(* Direct calls of apply_modification on clean sequences, and of           *)
(* validate_sequence on what it returns                                    *)

ResidueChars == {"M", "C", "S", "T", "K", "N", "P"}

InitApply ==
    /\ NoSession
    /\ peptide_sequence \in Strings(ResidueChars, MaxLen)
    /\ modifications \in Range(modification_options)
    /\ charge_state = 2
    /\ display = Blank
    /\ calls = <<>>
    /\ ret = NoRet

CallApply ==
    /\ ret.fn = "none"
    /\ ret' = [fn |-> "apply_modification", arg |-> peptide_sequence,
               value |-> apply_modification(peptide_sequence, modifications)]
    /\ UNCHANGED <<peptide_sequence, modifications, charge_state, display, calls, session>>

CallValidateAnnotated ==
    /\ ret.fn = "apply_modification"
    /\ ret' = [fn |-> "validate_sequence", arg |-> ret.value,
               value |-> validate_sequence(ret.value)]
    /\ UNCHANGED <<peptide_sequence, modifications, charge_state, display, calls, session>>

NextApply == CallApply \/ CallValidateAnnotated

SpecApply == InitApply /\ [][NextApply]_vars

----------------------------------------------------------------------------
(* pyOpenMS AASequence, as the page uses it.  Masses are integers in      *)
(* micro-Dalton; a parsed sequence is [ok, nterm, residues, cterm] with   *)
(* <<>> for "no modification".                                             *)

PROTON_MASS == 1007276

WATER_MASS == 18010565

residue_mass(aa) ==
    CASE aa = "G" -> 57021464   [] aa = "A" -> 71037114
      [] aa = "S" -> 87032028   [] aa = "P" -> 97052764
      [] aa = "V" -> 99068414   [] aa = "T" -> 101047679
      [] aa = "C" -> 103009185  [] aa = "L" -> 113084064
      [] aa = "I" -> 113084064  [] aa = "N" -> 114042927
      [] aa = "D" -> 115026943  [] aa = "Q" -> 128058578
      [] aa = "K" -> 128094963  [] aa = "E" -> 129042593
      [] aa = "M" -> 131040485  [] aa = "H" -> 137058912
      [] aa = "F" -> 147068414  [] aa = "R" -> 156101111
      [] aa = "Y" -> 163063329  [] aa = "W" -> 186079313

known_modifications ==
    {Oxidation, Carbamidomethyl, Phospho, Acetyl, Methyl, Deamidated}

modification_mass(name) ==
    CASE name = <<>> -> 0
      [] name = Oxidation -> 15994915
      [] name = Carbamidomethyl -> 57021464
      [] name = Phospho -> 79966331
      [] name = Acetyl -> 42010565
      [] name = Methyl -> 14015650
      [] name = Deamidated -> 984016

ParseError == [ok |-> FALSE, nterm |-> <<>>, residues |-> <<>>, cterm |-> <<>>]

\* index of the first ")" at or after i, 0 when there is none
close_index(str, i) ==
    IF \E j \in i..Len(str) : str[j] = ")"
    THEN CHOOSE j \in i..Len(str) :
            /\ str[j] = ")"
            /\ \A k \in i..(j - 1) : str[k] # ")"
    ELSE 0

RECURSIVE parse_residues(_, _)
\* AA, AA(ModificationName), and a closing .(ModificationName)
parse_residues(str, i) ==
    IF i > Len(str) THEN [ParseError EXCEPT !.ok = TRUE]
    ELSE IF i < Len(str) /\ str[i + 1] = "("
    THEN LET j == close_index(str, i + 2)
             name == SubSeq(str, i + 2, j - 1)
         IN  IF j = 0 \/ name \notin known_modifications THEN ParseError
             ELSE IF str[i] = "."
             THEN IF j = Len(str) THEN [ParseError EXCEPT !.ok = TRUE, !.cterm = name]
                  ELSE ParseError
             ELSE IF str[i] \notin valid_aa THEN ParseError
             ELSE LET rest == parse_residues(str, j + 1)
                  IN  [rest EXCEPT !.residues =
                          <<[aa |-> str[i], mod |-> name]>> \o rest.residues]
    ELSE IF str[i] \notin valid_aa THEN ParseError
    ELSE LET rest == parse_residues(str, i + 1)
         IN  [rest EXCEPT !.residues =
                 <<[aa |-> str[i], mod |-> <<>>]>> \o rest.residues]

\* AASequence.fromString: .(ModificationName)SEQUENCE, or SEQUENCE
fromString(str) ==
    IF Len(str) >= 2 /\ str[1] = "." /\ str[2] = "("
    THEN LET j == close_index(str, 3)
             name == SubSeq(str, 3, j - 1)
         IN  IF j = 0 \/ name \notin known_modifications THEN ParseError
             ELSE LET rest == parse_residues(str, j + 1)
                  IN  IF rest.ok /\ rest.residues # <<>>
                      THEN [rest EXCEPT !.nterm = name]
                      ELSE ParseError
    ELSE LET rest == parse_residues(str, 1)
         IN  IF rest.ok /\ rest.residues # <<>> THEN rest ELSE ParseError

RECURSIVE residues_weight(_)
residues_weight(residues) ==
    IF residues = <<>> THEN 0
    ELSE residue_mass(Head(residues).aa) + modification_mass(Head(residues).mod)
         + residues_weight(Tail(residues))

\* AASequence.getMonoWeight()
getMonoWeight(aa_sequence) ==
    residues_weight(aa_sequence.residues) + modification_mass(aa_sequence.nterm)
    + modification_mass(aa_sequence.cterm) + WATER_MASS

\* AASequence.getMZ(charge): (Monoisotopic Mass + Charge x Proton Mass) / Charge
getMZ(aa_sequence, charge) ==
    (getMonoWeight(aa_sequence) + charge * PROTON_MASS) \div charge

----------------------------------------------------------------------------
(* The calculator page: widgets and the Calculate handler *)

MIN_CHARGE == 1

MAX_CHARGE == 10

\* the characters typed into the text input
PageChars == {"M", "k", "B", " ", "!", "3", "0"}

\* what a library call may raise: the call, and the words of str(e) the handler looks for
Faults ==
    {[at |-> "none", msg |-> "none"],
     [at |-> "fromString", msg |-> "unknown modification"],
     [at |-> "fromString", msg |-> "sequence"],
     [at |-> "getMZ", msg |-> "other"],
     [at |-> "getFormula", msg |-> "other"]}

\* except Exception as e: the message chosen from str(e).lower()
exception_message(msg) ==
    IF msg \in {"unknown modification"}
    THEN "Error: Unknown modification or invalid modification syntax."
    ELSE IF msg = "sequence"
    THEN "Error: Invalid peptide sequence format."
    ELSE "Error in calculation"

\* the lines of the try block after the library calls: what is rendered
render_results(peptide_seq, clean_sequence, modification, charge, modified_sequence, mz_ratio, mono_weight) ==
    [kind |-> "success", message |-> "Calculation Successful!",
     mz_ratio |-> mz_ratio,
     mono_weight |-> mono_weight,
     charge_state |-> charge,
     original_sequence |-> upper(peptide_seq),
     modified_sequence |-> modified_sequence,
     clean_sequence |-> clean_sequence,
     modification |-> modification]

\* what Streamlit renders for an exception no except clause caught
Traceback == [Error("Traceback") EXCEPT !.kind = "uncaught"]

\* the try block without its except clause
except_missing(fault, calls_made) ==
    [display |-> Traceback, calls |-> calls_made]

\* except Exception as e: ...
except_Exception(fault, calls_made) ==
    [display |-> Error(exception_message(fault.msg)), calls |-> calls_made]

\* mz_ratio = aa_sequence.getMZ(charge_state), computed without the protons
mz_ratio_neutral(aa_sequence, charge) == getMonoWeight(aa_sequence) \div charge

\* mz_ratio = aa_sequence.getMZ(charge_state)
mz_ratio_of(aa_sequence, charge) == getMZ(aa_sequence, charge)

\* the try block of the handler
try_calculate(peptide_seq, clean_sequence, modification, charge, fault) ==
    LET modified_sequence == apply_modification(clean_sequence, modification)
        aa_sequence == fromString(modified_sequence)
        mz_ratio == mz_ratio_of(aa_sequence, charge)
        mono_weight == getMonoWeight(aa_sequence)
        parse_fault == IF fault.at = "fromString" THEN fault
                       ELSE [at |-> "fromString", msg |-> "unknown modification"]
        c_apply == <<Call("apply_modification", clean_sequence, modified_sequence)>>
        c_parse == c_apply \o <<Call("fromString", modified_sequence, "ok")>>
        c_mz    == c_parse \o <<Call("getMZ", charge, mz_ratio)>>
        c_mono  == c_mz \o <<Call("getMonoWeight", <<>>, mono_weight)>>
        c_form  == c_mono \o <<Call("getFormula", <<>>, "ok")>>
    IN  IF fault.at = "fromString" \/ ~aa_sequence.ok
        THEN except_Exception(parse_fault,
                 c_apply \o <<Raise("fromString", modified_sequence)>>)
        ELSE IF fault.at = "getMZ"
        THEN except_Exception(fault, c_parse \o <<Raise("getMZ", charge)>>)
        ELSE IF fault.at = "getFormula"
        THEN except_Exception(fault, c_mono \o <<Raise("getFormula", <<>>)>>)
        ELSE [display |-> render_results(peptide_seq, clean_sequence, modification,
                              charge, modified_sequence, mz_ratio, mono_weight),
              calls |-> c_form]

\* the handler without the elif len(clean_sequence) == 0 branch
handler_no_length_check(peptide_seq, modification, charge, fault) ==
    IF strip_is_empty(peptide_seq)
    THEN [display |-> Error("Please enter a peptide sequence."), calls |-> <<>>]
    ELSE LET validated == validate_sequence(peptide_seq)
             c_validate == <<Call("validate_sequence", peptide_seq, validated)>>
         IN  IF ~validated[1]
             THEN [display |-> Error("Invalid amino acid sequence."),
                   calls |-> c_validate]
             ELSE LET r == try_calculate(peptide_seq, validated[2], modification,
                                         charge, fault)
                  IN  [display |-> r.display, calls |-> c_validate \o r.calls]

\* the handler applying the modification to the raw input before validating
handler_apply_first(peptide_seq, modification, charge, fault) ==
    IF strip_is_empty(peptide_seq)
    THEN [display |-> Error("Please enter a peptide sequence."), calls |-> <<>>]
    ELSE LET modified == apply_modification(upper(peptide_seq), modification)
             validated == validate_sequence(modified)
             c_first == <<Call("apply_modification", upper(peptide_seq), modified),
                          Call("validate_sequence", modified, validated)>>
         IN  IF ~validated[1]
             THEN [display |-> Error("Invalid amino acid sequence."),
                   calls |-> c_first]
             ELSE IF Len(validated[2]) = 0
             THEN [display |-> Error("Please enter a valid peptide sequence."),
                   calls |-> c_first]
             ELSE LET r == try_calculate(peptide_seq, validated[2], "None",
                                         charge, fault)
                  IN  [display |-> r.display, calls |-> c_first \o Tail(r.calls)]

\* if calculate_button: ...
calculate_button_handler(peptide_seq, modification, charge, fault) ==
    IF strip_is_empty(peptide_seq)
    THEN [display |-> Error("Please enter a peptide sequence."), calls |-> <<>>]
    ELSE LET validated == validate_sequence(peptide_seq)
             is_valid == validated[1]
             clean_sequence == validated[2]
             c_validate == <<Call("validate_sequence", peptide_seq, validated)>>
         IN  IF ~is_valid
             THEN [display |-> Error("Invalid amino acid sequence."),
                   calls |-> c_validate]
             ELSE IF Len(clean_sequence) = 0
             THEN [display |-> Error("Please enter a valid peptide sequence."),
                   calls |-> c_validate]
             ELSE LET r == try_calculate(peptide_seq, clean_sequence, modification,
                                         charge, fault)
                  IN  [display |-> r.display, calls |-> c_validate \o r.calls]

Init ==
    /\ NoSession
    /\ peptide_sequence = DEFAULT_SEQUENCE
    /\ modifications = "None"
    /\ charge_state = DEFAULT_CHARGE
    /\ display = Blank
    /\ calls = <<>>
    /\ ret = NoRet

\* a page run with the button not pressed renders no result
Rerun ==
    /\ display' = Blank
    /\ calls' = <<>>
    /\ UNCHANGED <<ret, session>>

TypeChar(c) ==
    /\ Len(peptide_sequence) < PageMaxLen
    /\ peptide_sequence' = Append(peptide_sequence, c)
    /\ UNCHANGED <<modifications, charge_state>>
    /\ Rerun

ClearInput ==
    /\ peptide_sequence # <<>>
    /\ peptide_sequence' = <<>>
    /\ UNCHANGED <<modifications, charge_state>>
    /\ Rerun

SelectModification(m) ==
    /\ m # modifications
    /\ modifications' = m
    /\ UNCHANGED <<peptide_sequence, charge_state>>
    /\ Rerun

\* st.number_input(min_value=1, max_value=10, step=1): the widget steps the
\* value by one and accepts no value outside the range
StepCharge(d) ==
    /\ MIN_CHARGE <= charge_state + d /\ charge_state + d <= MAX_CHARGE
    /\ charge_state' = charge_state + d
    /\ UNCHANGED <<peptide_sequence, modifications>>
    /\ Rerun

Calculate(fault) ==
    \E r \in {calculate_button_handler(peptide_sequence, modifications,
                                         charge_state, fault)} :
        /\ display' = r.display
        /\ calls' = r.calls
        /\ UNCHANGED <<peptide_sequence, modifications, charge_state, ret, session>>

Next ==
    \/ \E c \in PageChars : TypeChar(c)
    \/ ClearInput
    \/ \E m \in Range(modification_options) : SelectModification(m)
    \/ \E d \in {-1, 1} : StepCharge(d)
    \/ \E fault \in Faults : Calculate(fault)

Spec == Init /\ [][Next]_vars

----------------------------------------------------------------------------
(* The backend the main page imports (src.peptide_calculator): the         *)
(* notation tokenizer, the charge resolver, the sequence analyzer and       *)
(* calculate_peptide_mz.  Annotations resolve by name only.                 *)

is_digit(c) == c \in {"0", "1", "2", "3", "4", "5", "6", "7", "8", "9"}

digit_of(c) ==
    CASE c = "0" -> 0 [] c = "1" -> 1 [] c = "2" -> 2 [] c = "3" -> 3
      [] c = "4" -> 4 [] c = "5" -> 5 [] c = "6" -> 6 [] c = "7" -> 7
      [] c = "8" -> 8 [] c = "9" -> 9

RECURSIVE int_of(_)
int_of(digits) ==
    IF digits = <<>> THEN 0
    ELSE 10 * int_of(SubSeq(digits, 1, Len(digits) - 1)) + digit_of(digits[Len(digits)])

RECURSIVE digits_start_from(_, _)
digits_start_from(str, i) ==
    IF i >= 1 /\ is_digit(str[i]) THEN digits_start_from(str, i - 1) ELSE i + 1

\* index where the digits that end str start, Len(str) + 1 when there are none
trailing_digits_start(str) == digits_start_from(str, Len(str))

\* the trailing charge suffix: "/" and digits, or, with no slash in the
\* string, digits appended to the sequence; body is what precedes it
charge_suffix(str) ==
    LET i == trailing_digits_start(str)
    IN  IF i > 1 /\ i <= Len(str) /\ str[i - 1] = "/"
        THEN [source |-> "SequenceSlash", charge |-> int_of(SubSeq(str, i, Len(str))),
              body |-> SubSeq(str, 1, i - 2)]
        ELSE IF i > 1 /\ i <= Len(str) /\ ~contains(str, "/")
        THEN [source |-> "SequenceTrailingDigit",
              charge |-> int_of(SubSeq(str, i, Len(str))),
              body |-> SubSeq(str, 1, i - 1)]
        ELSE [source |-> "UserInput", charge |-> 0, body |-> str]

closing(open) == IF open = "[" THEN "]" ELSE ")"

RECURSIVE index_of(_, _, _)
\* index of the first character c at or after i, 0 when there is none
index_of(str, c, i) ==
    IF i > Len(str) THEN 0
    ELSE IF str[i] = c THEN i
    ELSE index_of(str, c, i + 1)

Tokens(error) == [error |-> error, nterm |-> <<>>, residues |-> <<>>, cterm |-> <<>>]

RECURSIVE tokenize_from(_, _)
\* residues, each with the annotation that follows it, and a closing
\* .[annotation]; any character that fits nowhere is MalformedNotation
tokenize_from(str, i) ==
    IF i > Len(str) THEN Tokens("")
    ELSE IF isalpha(str[i])
    THEN IF i < Len(str) /\ str[i + 1] \in {"[", "("}
         THEN LET j == index_of(str, closing(str[i + 1]), i + 2)
              IN  IF j = 0 THEN Tokens("MalformedNotation")
                  ELSE LET rest == tokenize_from(str, j + 1)
                       IN  [rest EXCEPT !.residues =
                              <<[aa |-> upper_char(str[i]),
                                 mod |-> SubSeq(str, i + 2, j - 1)]>> \o rest.residues]
         ELSE LET rest == tokenize_from(str, i + 1)
              IN  [rest EXCEPT !.residues =
                     <<[aa |-> upper_char(str[i]), mod |-> <<>>]>> \o rest.residues]
    ELSE IF str[i] = "." /\ i < Len(str) /\ str[i + 1] \in {"[", "("}
    THEN LET j == index_of(str, closing(str[i + 1]), i + 2)
         IN  IF j = Len(str)
             THEN [Tokens("") EXCEPT !.cterm = SubSeq(str, i + 2, j - 1)]
             ELSE Tokens("MalformedNotation")
    ELSE Tokens("MalformedNotation")

\* the Notation Tokenizer on the text before the charge suffix: an optional
\* leading dot, an optional N-terminal annotation, then the residues
tokenize(body) ==
    LET start == IF Len(body) >= 1 /\ body[1] = "." THEN 2 ELSE 1
    IN  IF start <= Len(body) /\ body[start] \in {"[", "("}
        THEN LET j == index_of(body, closing(body[start]), start + 1)
             IN  IF j = 0 THEN Tokens("MalformedNotation")
                 ELSE [tokenize_from(body, j + 1) EXCEPT
                          !.nterm = SubSeq(body, start + 1, j - 1)]
        ELSE tokenize_from(body, start)

\* the Modification Resolver: a named annotation's display name
display_name(annotation) ==
    CASE annotation = Oxidation -> "Oxidation (M)"
      [] annotation = Carbamidomethyl -> "Carbamidomethyl (C)"
      [] annotation = Phospho -> "Phosphorylation (S/T/Y)"
      [] annotation = Acetyl -> "Acetylation (N-term)"
      [] annotation = Methyl -> "Methylation (K/R)"
      [] annotation = Deamidated -> "Deamidation (N/Q)"
      [] OTHER -> "None"

annotations_of(tokens) ==
    (IF tokens.nterm = <<>> THEN <<>> ELSE <<tokens.nterm>>)
    \o SelectSeq([i \in DOMAIN tokens.residues |-> tokens.residues[i].mod],
                 LAMBDA a : a # <<>>)
    \o (IF tokens.cterm = <<>> THEN <<>> ELSE <<tokens.cterm>>)

\* the Charge Resolver: the notation's charge overrides the caller's, and a
\* resolved charge outside the range is ChargeOutOfRange
resolve_charge(suffix, caller_charge) ==
    LET z == IF suffix.source = "UserInput" THEN caller_charge ELSE suffix.charge
    IN  [error |-> IF z < MIN_CHARGE \/ z > MAX_CHARGE THEN "ChargeOutOfRange" ELSE "",
         source |-> suffix.source,
         charge |-> z]

\* tokenizer, modification resolution, charge resolution, sequence builder:
\* the first stage that fails names the error
analysis_error(tokens, resolved) ==
    IF tokens.error # "" THEN tokens.error
    ELSE IF \E i \in DOMAIN annotations_of(tokens) :
               annotations_of(tokens)[i] \notin known_modifications
    THEN "UnknownModification"
    ELSE IF resolved.error # "" THEN resolved.error
    ELSE IF tokens.residues = <<>>
            \/ \E i \in DOMAIN tokens.residues : tokens.residues[i].aa \notin valid_aa
    THEN "InvalidSequence"
    ELSE ""

analyze_peptide_sequence(raw) ==
    LET suffix == charge_suffix(raw)
        tokens == tokenize(suffix.body)
        resolved == resolve_charge(suffix, DEFAULT_CHARGE)
        error == analysis_error(tokens, resolved)
        found == annotations_of(tokens)
    IN  IF error # ""
        THEN [SequenceAnalysis EXCEPT !.error_message = error]
        ELSE [is_valid |-> TRUE,
              clean_sequence |-> [i \in DOMAIN tokens.residues |-> tokens.residues[i].aa],
              modification |-> IF Len(found) = 1 THEN display_name(found[1]) ELSE "None",
              modification_detected |-> Len(found) = 1,
              charge |-> resolved.charge,
              charge_detected |-> suffix.source # "UserInput",
              error_message |-> ""]

\* the residues a dropdown modification applies to, and its annotation
dropdown_targets(modification) ==
    CASE modification = "Oxidation (M)" -> {"M"}
      [] modification = "Carbamidomethyl (C)" -> {"C"}
      [] modification = "Phosphorylation (S/T/Y)" -> {"S", "T", "Y"}
      [] modification = "Methylation (K/R)" -> {"K", "R"}
      [] modification = "Deamidation (N/Q)" -> {"N", "Q"}
      [] OTHER -> {}

dropdown_annotation(modification) ==
    CASE modification = "Oxidation (M)" -> Oxidation
      [] modification = "Carbamidomethyl (C)" -> Carbamidomethyl
      [] modification = "Phosphorylation (S/T/Y)" -> Phospho
      [] modification = "Acetylation (N-term)" -> Acetyl
      [] modification = "Methylation (K/R)" -> Methyl
      [] modification = "Deamidation (N/Q)" -> Deamidated
      [] OTHER -> <<>>

\* the dropdown modification applied to every applicable position; a
\* position that already carries an annotation is a conflict
apply_dropdown(tokens, modification) ==
    IF modification = "Acetylation (N-term)"
    THEN IF tokens.nterm # <<>> THEN [tokens EXCEPT !.error = "InvalidSequence"]
         ELSE [tokens EXCEPT !.nterm = Acetyl]
    ELSE IF \E i \in DOMAIN tokens.residues :
               /\ tokens.residues[i].aa \in dropdown_targets(modification)
               /\ tokens.residues[i].mod # <<>>
    THEN [tokens EXCEPT !.error = "InvalidSequence"]
    ELSE [tokens EXCEPT !.residues =
             [i \in DOMAIN tokens.residues |->
                 IF tokens.residues[i].aa \in dropdown_targets(modification)
                 THEN [tokens.residues[i] EXCEPT !.mod = dropdown_annotation(modification)]
                 ELSE tokens.residues[i]]]

RECURSIVE residues_notation(_)
residues_notation(residues) ==
    IF residues = <<>> THEN <<>>
    ELSE (IF Head(residues).mod = <<>> THEN <<Head(residues).aa>>
          ELSE annotated(Head(residues).aa, Head(residues).mod))
         \o residues_notation(Tail(residues))

\* the normalized notation of a peptide
notation_of(tokens) ==
    (IF tokens.nterm = <<>> THEN <<>> ELSE <<".", "(">> \o tokens.nterm \o <<")">>)
    \o residues_notation(tokens.residues)
    \o (IF tokens.cterm = <<>> THEN <<>> ELSE <<".", "(">> \o tokens.cterm \o <<")">>)

NoResults ==
    [mz_ratio |-> 0, monoisotopic_mass |-> 0, charge_state |-> 0,
     charge_source |-> "", original_sequence |-> <<>>, modified_sequence |-> <<>>,
     sequence_length |-> 0, modification |-> "None"]

\* calculate_peptide_mz: [error, results], error being the ValueError raised
calculate_peptide_mz(raw, charge, modification) ==
    LET suffix == charge_suffix(raw)
        tokens == tokenize(suffix.body)
        resolved == resolve_charge(suffix, charge)
        first_error == analysis_error(tokens, resolved)
        peptide == apply_dropdown(tokens, modification)
        mono == residues_weight(peptide.residues) + modification_mass(peptide.nterm)
                + modification_mass(peptide.cterm) + WATER_MASS
    IN  IF first_error # "" THEN [error |-> first_error, results |-> NoResults]
        ELSE IF peptide.error # "" THEN [error |-> peptide.error, results |-> NoResults]
        ELSE [error |-> "",
              results |->
                [mz_ratio |-> (mono + resolved.charge * PROTON_MASS) \div resolved.charge,
                 monoisotopic_mass |-> mono,
                 charge_state |-> resolved.charge,
                 charge_source |-> IF resolved.source = "UserInput" THEN "User input"
                                   ELSE "From sequence notation",
                 original_sequence |-> raw,
                 modified_sequence |-> notation_of(peptide),
                 sequence_length |-> Len(peptide.residues),
                 modification |-> modification]]

\* get_cached_modifications()
get_cached_modifications == modification_options

----------------------------------------------------------------------------
(* The main page (content/quickstart.py): every action is one run of the   *)
(* page script                                                              *)

QuickMaxLen == 2

\* the characters typed into the text input
QuickChars == {"M", "/", "0", "3", " "}

\* two of the inputs the page documents: PEPTIDE/2 and M[Oxidation]
Examples ==
    {DEFAULT_SEQUENCE \o <<"/", "2">>,
     <<"M", "[">> \o Oxidation \o <<"]">>}

\* what a backend call of the handler may raise: calculate_peptide_mz an
\* exception other than ValueError, analyze_peptide_sequence any exception
MainFaults == {"none", "unexpected", "analysis"}

ErrorQ(message, detail) ==
    [kind |-> "error", message |-> message, detail |-> detail, results |-> NoResults]

BlankQ == [ErrorQ("", "") EXCEPT !.kind = "none"]

\* the run ended by an exception no except clause of the script catches
UncaughtQ == [ErrorQ("", "analysis") EXCEPT !.kind = "uncaught"]

\* the analysis step that records the new sequence but not its analysis
run_analysis_stale(peptide_seq, last_seq, last_an) ==
    IF ~strip_is_empty(peptide_seq) /\ peptide_seq # last_seq
    THEN [analysis |-> analyze_peptide_sequence(peptide_seq),
          last_sequence |-> peptide_seq, last_analysis |-> last_an]
    ELSE IF ~strip_is_empty(peptide_seq)
    THEN [analysis |-> last_an, last_sequence |-> last_seq, last_analysis |-> last_an]
    ELSE [analysis |-> SequenceAnalysis, last_sequence |-> last_seq,
          last_analysis |-> last_an]

\* analyze sequence only if it has changed
run_analysis(peptide_seq, last_seq, last_an) ==
    IF ~strip_is_empty(peptide_seq) /\ peptide_seq # last_seq
    THEN LET an == analyze_peptide_sequence(peptide_seq)
         IN  [analysis |-> an, last_sequence |-> peptide_seq, last_analysis |-> an]
    ELSE IF ~strip_is_empty(peptide_seq)
    THEN [analysis |-> last_an, last_sequence |-> last_seq, last_analysis |-> last_an]
    ELSE [analysis |-> SequenceAnalysis, last_sequence |-> last_seq,
          last_analysis |-> last_an]

\* "None" prepended to the raw list as it is
build_options_unfiltered(raw_modification_list) ==
    <<"None">> \o raw_modification_list

\* ["None"] + [mod for mod in raw_modification_list if mod != "None"]
build_modification_options(raw_modification_list) ==
    <<"None">> \o SelectSeq(raw_modification_list, LAMBDA mod : mod # "None")

\* modification_options for the backend's list
main_modification_options == build_modification_options(get_cached_modifications)

\* modification_options.index(analysis.modification), 0 if not found (here from 1)
detected_index(an) ==
    IF \E i \in DOMAIN main_modification_options :
          main_modification_options[i] = an.modification
    THEN CHOOSE i \in DOMAIN main_modification_options :
            /\ main_modification_options[i] = an.modification
            /\ \A k \in 1..(i - 1) : main_modification_options[k] # an.modification
    ELSE 1

\* st.selectbox(..., index=detected_index, key="modification_input"): the
\* user's choice, or the detected option when the detection changed
modification_input(choice, an, previous) ==
    IF detected_index(an) # detected_index(previous)
    THEN main_modification_options[detected_index(an)]
    ELSE choice

\* st.number_input(..., value=analysis.charge, key="charge_input"): the
\* user's value, or the analysis's charge when that changed
charge_input(value, an, previous) ==
    IF an.charge # previous.charge THEN an.charge ELSE value

\* if calculate_button: ...
main_calculate_handler(peptide_seq, charge, modification, fault, in_progress) ==
    IF strip_is_empty(peptide_seq)
    THEN [display |-> ErrorQ("empty_sequence", ""), calls |-> <<>>,
          calculation_in_progress |-> in_progress]
    ELSE IF fault = "analysis"
    THEN \* st.session_state.calculation_in_progress = True, then the call of
         \* analyze_peptide_sequence before the try statement raises
         [display |-> UncaughtQ,
          calls |-> <<Raise("analyze_peptide_sequence", peptide_seq)>>,
          calculation_in_progress |-> TRUE]
    ELSE LET current_analysis == analyze_peptide_sequence(peptide_seq)
             c_analyze == <<Call("analyze_peptide_sequence", peptide_seq,
                                 current_analysis)>>
             args == <<peptide_seq, charge, modification>>
             r == calculate_peptide_mz(peptide_seq, charge, modification)
         IN  IF ~current_analysis.is_valid
             THEN [display |->
                     IF current_analysis.error_message # ""
                     THEN ErrorQ(current_analysis.error_message, "")
                     ELSE ErrorQ("invalid_amino_acid", ""),
                   calls |-> c_analyze,
                   calculation_in_progress |-> FALSE]
             ELSE IF Len(current_analysis.clean_sequence) = 0
             THEN [display |-> ErrorQ("invalid_sequence_length", ""),
                   calls |-> c_analyze,
                   calculation_in_progress |-> FALSE]
             ELSE IF fault = "unexpected"
             THEN [display |-> ErrorQ("unexpected_error", "unexpected"),
                   calls |-> c_analyze \o <<Raise("calculate_peptide_mz", args)>>,
                   calculation_in_progress |-> FALSE]
             ELSE IF r.error # ""
             THEN [display |-> ErrorQ("calculation_error", r.error),
                   calls |-> c_analyze \o <<Raise("calculate_peptide_mz", args)>>,
                   calculation_in_progress |-> FALSE]
             ELSE [display |-> [kind |-> "success", message |-> "Calculation Successful!",
                                detail |-> "", results |-> r.results],
                   calls |-> c_analyze \o <<Call("calculate_peptide_mz", args, r.results)>>,
                   calculation_in_progress |-> FALSE]

\* one run of the page script with the widgets as the user left them
MainRun(peptide_seq, choice, value, pressed, fault) ==
    \E a \in {run_analysis(peptide_seq, last_sequence, last_analysis)} :
    \E modification \in {modification_input(choice, a.analysis, analysis)} :
    \E charge \in {charge_input(value, a.analysis, analysis)} :
        /\ peptide_sequence' = peptide_seq
        /\ analysis' = a.analysis
        /\ last_sequence' = a.last_sequence
        /\ last_analysis' = a.last_analysis
        /\ modifications' = modification
        /\ charge_state' = charge
        /\ IF pressed
           THEN \E h \in {main_calculate_handler(peptide_seq, charge, modification,
                                                  fault, calculation_in_progress)} :
                    /\ display' = h.display
                    /\ calls' = h.calls
                    /\ calculation_in_progress' = h.calculation_in_progress
           ELSE /\ display' = BlankQ
                /\ calls' = <<>>
                /\ UNCHANGED calculation_in_progress
        /\ UNCHANGED ret

\* the page as first loaded
InitMain ==
    /\ peptide_sequence = DEFAULT_SEQUENCE
    /\ analysis = analyze_peptide_sequence(DEFAULT_SEQUENCE)
    /\ last_sequence = DEFAULT_SEQUENCE
    /\ last_analysis = analyze_peptide_sequence(DEFAULT_SEQUENCE)
    /\ calculation_in_progress = FALSE
    /\ modifications = main_modification_options[detected_index(analysis)]
    /\ charge_state = analysis.charge
    /\ display = BlankQ
    /\ calls = <<>>
    /\ ret = NoRet

MainTypeChar(c) ==
    /\ Len(peptide_sequence) < QuickMaxLen
    /\ MainRun(Append(peptide_sequence, c), modifications, charge_state, FALSE, "none")

MainEnterExample(example) ==
    /\ peptide_sequence # example
    /\ MainRun(example, modifications, charge_state, FALSE, "none")

MainClearInput ==
    /\ peptide_sequence # <<>>
    /\ MainRun(<<>>, modifications, charge_state, FALSE, "none")

MainSelectModification(m) ==
    /\ m # modifications
    /\ MainRun(peptide_sequence, m, charge_state, FALSE, "none")

\* st.number_input(min_value=Config.MIN_CHARGE, max_value=Config.MAX_CHARGE, step=1)
MainStepCharge(d) ==
    /\ MIN_CHARGE <= charge_state + d /\ charge_state + d <= MAX_CHARGE
    /\ MainRun(peptide_sequence, modifications, charge_state + d, FALSE, "none")

\* the button is disabled while calculation_in_progress
MainCalculate(fault) ==
    /\ ~calculation_in_progress
    /\ MainRun(peptide_sequence, modifications, charge_state, TRUE, fault)

NextMain ==
    \/ \E c \in QuickChars : MainTypeChar(c)
    \/ \E example \in Examples : MainEnterExample(example)
    \/ MainClearInput
    \/ \E m \in Range(main_modification_options) : MainSelectModification(m)
    \/ \E d \in {-1, 1} : MainStepCharge(d)
    \/ \E fault \in MainFaults : MainCalculate(fault)

SpecMain == InitMain /\ [][NextMain]_vars

----------------------------------------------------------------------------
(* modification_options built from any list cached_modifications() may     *)
(* return                                                                   *)

MaxRaw == 3

\* names the backend list may hold
RawNames == {"None", "Oxidation (M)", "Phosphorylation (S/T/Y)", "Acetylation (N-term)"}

InitOptions ==
    /\ NoSession
    /\ peptide_sequence = DEFAULT_SEQUENCE
    /\ modifications = "None"
    /\ charge_state = DEFAULT_CHARGE
    /\ display = BlankQ
    /\ calls = <<>>
    /\ \E raw \in Strings(RawNames, MaxRaw) :
          ret = [fn |-> "cached_modifications", arg |-> <<>>, value |-> raw]

BuildOptions ==
    /\ ret.fn = "cached_modifications"
    /\ ret' = [fn |-> "modification_options", arg |-> ret.value,
               value |-> build_modification_options(ret.value)]
    /\ UNCHANGED <<peptide_sequence, modifications, charge_state, display, calls, session>>

NextOptions == BuildOptions

SpecOptions == InitOptions /\ [][NextOptions]_vars

----------------------------------------------------------------------------
(* Properties *)

valid_aa_lower ==
    {"a","c","d","e","f","g","h","i","k","l",
     "m","n","p","q","r","s","t","v","w","y"}

\* non-empty, and only letters of ACDEFGHIKLMNPQRSTVWY in either case
IsResidueText(s) ==
    /\ Len(s) > 0
    /\ \A i \in 1..Len(s) : s[i] \in valid_aa \cup valid_aa_lower

\* no letter at all: nothing is left once the notation is stripped
ZeroResidues(s) == \A i \in 1..Len(s) : ~isalpha(s[i])

\* a letter outside the 20-letter alphabet
HasInvalidLetter(s) ==
    \E i \in 1..Len(s) : isalpha(s[i]) /\ s[i] \notin valid_aa \cup valid_aa_lower

\* the Calculate button was pressed in the last page run
Pressed == display.kind # "none"

CallsOf(fn) == {i \in DOMAIN calls : calls[i].fn = fn}

\* C1: for every non-empty string of letters of ACDEFGHIKLMNPQRSTVWY in upper
\* or lower case, validate_sequence returns (true, the string upper-cased).
C1_ValidSequenceUppercased ==
    (ret.fn = "validate_sequence" /\ IsResidueText(peptide_sequence))
        => ret.value = <<TRUE, upper(peptide_sequence)>>

C1_Witness ==
    /\ ret.fn = "validate_sequence"
    /\ IsResidueText(peptide_sequence)
    /\ \E i, j \in 1..Len(peptide_sequence) :
          /\ peptide_sequence[i] \in valid_aa_lower
          /\ peptide_sequence[j] \in valid_aa

C3_MzFromReportedMass ==
    display.kind = "success" =>
        /\ charge_state \in 1..10
        /\ display.mz_ratio =
              (display.mono_weight + charge_state * PROTON_MASS) \div charge_state

C3_Witness ==
    /\ display.kind = "success"
    /\ charge_state = 3
    /\ display.modified_sequence # display.clean_sequence
    /\ display.mono_weight > 0

isdigit(c) == c \in {"0","1","2","3","4","5","6","7","8","9"}

digit_value(c) ==
    CASE c = "0" -> 0 [] c = "1" -> 1 [] c = "2" -> 2 [] c = "3" -> 3
      [] c = "4" -> 4 [] c = "5" -> 5 [] c = "6" -> 6 [] c = "7" -> 7
      [] c = "8" -> 8 [] c = "9" -> 9

RECURSIVE digits_value(_)
digits_value(ds) ==
    IF ds = <<>> THEN 0
    ELSE 10 * digits_value(SubSeq(ds, 1, Len(ds) - 1)) + digit_value(ds[Len(ds)])

\* where the digits ending s start (Len(s) + 1 when s does not end in a digit)
DigitSuffixStart(s) ==
    CHOOSE i \in 1..(Len(s) + 1) :
        /\ \A k \in i..Len(s) : isdigit(s[k])
        /\ i > 1 => ~isdigit(s[i - 1])

\* "/N" at the end, or digits appended to the sequence when there is no slash
HasChargeToken(s) ==
    LET i == DigitSuffixStart(s)
    IN  /\ 1 < i /\ i <= Len(s)
        /\ s[i - 1] = "/" \/ ~contains(s, "/")

TokenCharge(s) == digits_value(SubSeq(s, DigitSuffixStart(s), Len(s)))

\* C4: when the input carries an explicit charge token ("/N" or trailing
\* digits) the charge used for the calculation is the token's value,
\* overriding the charge of the number input; otherwise the number input's.
C4_ChargeTokenOverrides ==
    display.kind = "success" =>
        /\ HasChargeToken(peptide_sequence)
              => display.charge_state = TokenCharge(peptide_sequence)
        /\ ~HasChargeToken(peptide_sequence)
              => display.charge_state = charge_state

\* the charge the user asked for: the notation's, else the number input's
RequestedCharge ==
    IF HasChargeToken(peptide_sequence)
    THEN TokenCharge(peptide_sequence)
    ELSE charge_state

\* C5: a resolved charge outside 1..10 makes the calculation fail
\* (ChargeOutOfRange) and is never clamped: every charge used in a
\* successful calculation lies in 1..10 and is the charge that was requested.
C5_OutOfRangeChargeFails ==
    Pressed =>
        /\ RequestedCharge \notin 1..10 => display.kind = "error"
        /\ display.kind = "success"
              => /\ display.charge_state = RequestedCharge
                 /\ display.charge_state \in 1..10

\* neither a letter, a bracket or parenthesis, a digit, a slash nor a dot
IsUnsupportedChar(c) ==
    /\ ~isalpha(c)
    /\ ~isdigit(c)
    /\ c \notin {"[", "]", "(", ")", "/", "."}

\* C6: an input containing a character that is not a letter, bracket or
\* parenthesis, digit, slash or dot is rejected with an error; such
\* characters are never silently dropped to yield a valid sequence.
C6_UnsupportedCharacterRejected ==
    (Pressed /\ \E i \in 1..Len(peptide_sequence) :
                    IsUnsupportedChar(peptide_sequence[i]))
        => display.kind = "error"

FnNames(log) == [i \in DOMAIN log |-> log[i].fn]

\* C8 (as stated): in a calculation the modification is applied to the
\* sequence first and the resulting annotated sequence is then validated,
\* exactly once.
C8_ApplyBeforeValidate ==
    display.kind = "success" =>
        /\ Cardinality(CallsOf("apply_modification")) = 1
        /\ Cardinality(CallsOf("validate_sequence")) = 1
        /\ \E i \in CallsOf("apply_modification") :
              \E j \in CallsOf("validate_sequence") :
                  i < j /\ calls[j].arg = calls[i].result

\* C8 (amended): in a calculation the raw input is validated first, the
\* modification is then applied to the validated clean sequence, and the
\* resulting annotated sequence is parsed by AASequence.fromString, each
\* exactly once.
C8_ValidateApplyParse ==
    display.kind = "success" =>
        /\ FnNames(calls) = <<"validate_sequence", "apply_modification",
                              "fromString", "getMZ", "getMonoWeight", "getFormula">>
        /\ calls[1].arg = peptide_sequence
        /\ calls[2].arg = calls[1].result[2]
        /\ calls[2].result = apply_modification(calls[2].arg, modifications)
        /\ calls[3].arg = calls[2].result
        /\ display.modified_sequence = calls[3].arg

C8_Witness ==
    /\ display.kind = "success"
    /\ modifications # "None"
    /\ Len(calls) >= 3
    /\ calls[2].result # calls[2].arg
    /\ calls[3].arg = calls[2].result

ExceptionMessages ==
    {"Error: Unknown modification or invalid modification syntax.",
     "Error: Invalid peptide sequence format.",
     "Error in calculation"}

C7_AnnotationLettersNotResidues ==
    (ret.fn = "validate_sequence" /\ Len(peptide_sequence) > 0)
        => ret.value = <<TRUE, peptide_sequence>>

\* the residues a dropdown modification targets, and its annotation
TargetsOf(m) ==
    CASE m = "Oxidation (M)" -> {"M"}
      [] m = "Carbamidomethyl (C)" -> {"C"}
      [] m = "Phosphorylation (S/T/Y)" -> {"S", "T", "Y"}
      [] m = "Methylation (K/R)" -> {"K", "R"}
      [] m = "Deamidation (N/Q)" -> {"N", "Q"}
      [] OTHER -> {}

AnnotationOf(m) ==
    CASE m = "Oxidation (M)" -> Oxidation
      [] m = "Carbamidomethyl (C)" -> Carbamidomethyl
      [] m = "Phosphorylation (S/T/Y)" -> Phospho
      [] m = "Methylation (K/R)" -> Methyl
      [] m = "Deamidation (N/Q)" -> Deamidated
      [] OTHER -> <<>>

RECURSIVE AnnotateEvery(_, _)
\* s with every residue that m targets followed by "(annotation)"
AnnotateEvery(s, m) ==
    IF s = <<>> THEN <<>>
    ELSE (IF Head(s) \in TargetsOf(m)
          THEN annotated(Head(s), AnnotationOf(m))
          ELSE <<Head(s)>>) \o AnnotateEvery(Tail(s), m)

\* C10: for each dropdown modification m that targets residues and each
\* sequence s, every residue of s that m targets carries the annotation in
\* apply_modification(s, m).
C10_EveryTargetAnnotated ==
    (ret.fn = "apply_modification" /\ TargetsOf(modifications) # {})
        => ret.value = AnnotateEvery(peptide_sequence, modifications)

\* the positions of the raw list that do not hold "None"
NamedPositions(raw) == {p \in DOMAIN raw : raw[p] # "None"}

\* the k-th of these positions, counting from the left
KthNamed(raw, k) ==
    CHOOSE p \in NamedPositions(raw) :
        Cardinality({q \in NamedPositions(raw) : q < p}) = k - 1

\* C11: the options offered start with "None", hold "None" exactly once, and
\* after it list the other names of the backend list in the backend's order,
\* whether that list has no, one or several "None" entries.
C11_NoneFirstOnceOrderKept ==
    ret.fn = "modification_options" =>
        /\ Len(ret.value) >= 1
        /\ ret.value[1] = "None"
        /\ Cardinality({i \in DOMAIN ret.value : ret.value[i] = "None"}) = 1
        /\ Len(ret.value) = 1 + Cardinality(NamedPositions(ret.arg))
        /\ \A k \in 1..(Len(ret.value) - 1) :
              ret.value[k + 1] = ret.arg[KthNamed(ret.arg, k)]

\* a backend list with several "None" entries and another name between them
C11_Witness ==
    /\ ret.fn = "modification_options"
    /\ Cardinality({i \in DOMAIN ret.arg : ret.arg[i] = "None"}) >= 2
    /\ Len(ret.value) >= 2

\* C12: at the end of every page run calculation_in_progress is false,
\* whichever path the Calculate handler took, so the Calculate button is
\* never left disabled.
C12_InProgressFalseAfterRun == calculation_in_progress = FALSE

\* the cache holds the analysis of the sequence it is keyed by
CacheCoherent ==
    last_sequence # <<>> => last_analysis = analyze_peptide_sequence(last_sequence)

\* a non-blank input is pre-selected from its own analysis
AnalysisIsCurrent ==
    ~strip_is_empty(peptide_sequence)
        => analysis = analyze_peptide_sequence(peptide_sequence)

\* a run with a blank input leaves the cache as it was
BlankKeepsCache ==
    strip_is_empty(peptide_sequence') => UNCHANGED <<last_sequence, last_analysis>>

\* C13: after any page runs the session cache is coherent: a non-empty
\* last_sequence comes with its own analysis in last_analysis, the analysis
\* used for a non-blank input is the analysis of that input, and a run with
\* a blank input changes neither last_sequence nor last_analysis.
C13_SessionCacheCoherent ==
    /\ [](CacheCoherent /\ AnalysisIsCurrent)
    /\ [][BlankKeepsCache]_vars

\* a blank input while the cache holds a sequence typed earlier
C13_Witness ==
    /\ strip_is_empty(peptide_sequence)
    /\ last_sequence # <<>>
    /\ last_sequence # DEFAULT_SEQUENCE
    /\ last_analysis.charge_detected

====
